---- MODULE Spec2Model ----
(***************************************************************************)
(* Model of pallets/account_abstraction/src/lib.rs: the unsigned-extrinsic *)
(* admission check (validate_unsigned) and the dispatchable                *)
(* remote_call_from_evm_chain, over the pallet's AccountNonce storage map, *)
(* the balances of the Currency and the event log.                         *)
(***************************************************************************)
EXTENDS Integers, Sequences, FiniteSets, TLC

\* ---------------------------------------------------------------- bounds
MaxNonce == 1          \* nonces of requests range over 0..MaxNonce
InitBalance == 5       \* free balance of the funded account after genesis
MaxEvents == 2         \* handlers are run while the event log is shorter

\* ------------------------------------------------- configuration (traits)
ServiceFee == 1            \* T::ServiceFee
ExistentialDeposit == 1    \* Currency: minimum balance of a live account
BalanceMax == 255          \* PaymentBalanceOf<T>::MAX, width scaled to 8 bits
PriorityMax == 15          \* TransactionPriority::MAX, width scaled to 4 bits
MaxBlockLength == 4        \* BlockLength::get().max
MaxBlockRefTime == 8       \* BlockWeights::get().max_block.ref_time
MaxBlockProofSize == 8     \* BlockWeights::get().max_block.proof_size

Accounts == {"a1", "a2"}
Keys == {"k1", "k2"}
JunkKey == "kj"
Calls == {"Noop", "Fail", "Garbage"}

None == <<>>
Some(x) == <<x>>
Min(a, b) == IF a < b THEN a ELSE b
Max(a, b) == IF a > b THEN a ELSE b

\* ------------------------------------------------------------ pure parts

\* The digest binds caller, call data and nonce; keccak is taken as injective.
eip712_message_hash(who, call_data, nonce) == <<who, call_data, nonce>>

\* k256 recover_from_prehash: the key that signed `message` when the recovery
\* id is the parity of the signature's R point, another curve point otherwise.
\* Ids 2 and 3 (is_x_reduced) look for R at x = r + n: there is none unless r
\* is below p - n (rs.xlow), and then the point found is not the signer's R.
recover_from_prehash(message, rs, rid) ==
    IF rid > 1 THEN (IF rs.xlow THEN Some(JunkKey) ELSE None)
    ELSE IF rs.digest = message /\ rs.parity = rid THEN Some(rs.signer)
    ELSE Some(JunkKey)

\* the byte handed to RecoveryId::try_from, which takes 0..3
RecoveryIdByte(v) == IF v > 26 THEN v - 27 ELSE v

ecdsa_recover_public_key(signature, message) ==
    LET rid == RecoveryIdByte(signature.v)
    IN  IF rid > 3 THEN None
        ELSE IF ~signature.rs.wellformed THEN None
        ELSE recover_from_prehash(message, signature.rs, rid)

\* AccountId::decode(blake2_256(compressed public key))
decoded_account(public_key) ==
    CASE public_key = "k1" -> "a1"
      [] public_key = "k2" -> "a2"
      [] OTHER -> "aj"

\* RuntimeCall::decode(TrailingZeroInput(call_data))
\* a decoder that makes a call of any bytes
decode_Lenient(call_data) == Some(call_data)

decode(call_data) == IF call_data = "Garbage" THEN None ELSE Some(call_data)

encoded_size(call) == IF call = "Noop" THEN 2 ELSE 3
get_dispatch_info(call) ==
    IF call = "Noop" THEN [ref_time |-> 1, proof_size |-> 0]
    ELSE [ref_time |-> 4, proof_size |-> 2]

\* a tip that is dropped on the way
unwrap_tip_Dropped(tip) == 0

unwrap_tip(tip) == IF tip = None THEN 0 ELSE tip[1]

\* pallet_transaction_payment::compute_fee: length and weight fee plus tip
compute_fee(len, info, tip) == len + tip
\* an actual fee that takes no post-dispatch info from a failed call
compute_actual_fee_ErrorPaysAll(len, info, call_result, tip) ==
    IF call_result = "Ok" THEN len - 1 + tip ELSE len + tip

\* compute_actual_fee over the post-dispatch info: a successful call reports
\* one unit of unused weight, the post_info of an error reports two
compute_actual_fee(len, info, call_result, tip) ==
    IF call_result = "Ok" THEN len - 1 + tip ELSE len - 2 + tip

\* Currency::withdraw(who, value, TRANSACTION_PAYMENT, KeepAlive)
CanWithdraw(free, value) == free >= value /\ free - value >= ExistentialDeposit
\* Currency::reducible_balance(who, Preservation::Protect, Fortitude::Polite)
reducible_balance(free) == Max(free - ExistentialDeposit, 0)

\* an addition that wraps at the type's width
saturating_add_Wrapping(a, b, max) == (a + b) % (max + 1)

saturating_add(a, b, max) == Min(a + b, max)
\* a multiplication that wraps at the type's width
saturating_mul_Wrapping(a, b, max) == (a * b) % (max + 1)

saturating_mul(a, b, max) == Min(a * b, max)
saturated_into(a, max) == Min(a, max)

\* info.weight.max(Weight::from_parts(1, 1)).min(max_block_weight)
bounded_weight(info) ==
    [ref_time |-> Min(Max(info.ref_time, 1), MaxBlockRefTime),
     proof_size |-> Min(Max(info.proof_size, 1), MaxBlockProofSize)]
\* (len as u64).clamp(1, max_block_length)
bounded_length(len) == Min(Max(len, 1), MaxBlockLength)

checked_div_per_component(info) ==
    LET bw == bounded_weight(info)
    IN  Min(MaxBlockRefTime \div bw.ref_time,
            MaxBlockProofSize \div bw.proof_size)

get_priority(len, info, tip) ==
    LET max_tx_per_block_weight == checked_div_per_component(info)
        max_tx_per_block_length == MaxBlockLength \div bounded_length(len)
        max_tx_per_block ==
            saturated_into(Min(max_tx_per_block_length, max_tx_per_block_weight),
                           BalanceMax)
        tip1 == saturating_add(tip, 1, BalanceMax)
        scaled_tip == saturating_mul(tip1, max_tx_per_block, BalanceMax)
    IN  saturated_into(scaled_tip, PriorityMax)

\* ------------------------------------------------------------------ state
VARIABLES
    AccountNonce,   \* storage map AccountId -> u64, ValueQuery (default 0)
    balance,        \* free balance of each account in T::Currency
    events,         \* events deposited so far, in order
    dispatched,     \* actions handed to call.dispatch, in order
    passed,         \* (who, nonce) pairs that passed the nonce step
    admitted,       \* (who, nonce) pairs for which validate_unsigned returned Ok
    justAdmitted,   \* the request accepted by the handler run last, if any
    last,           \* the operation just run: its request, outcome, pre-state
    calc            \* inputs and result of a pure function evaluated on its own

vars == <<AccountNonce, balance, events, dispatched, passed, admitted,
          justAdmitted, last, calc>>

Event(kind, who, amount, tip, call_result) ==
    [kind |-> kind, who |-> who, amount |-> amount, tip |-> tip,
     call_result |-> call_result]

\* Option<PaymentBalanceOf<T>> as submitted: absent, zero, positive
Tips == {None, Some(0), Some(1)}

\* the argument list of Call::remote_call_from_evm_chain
Request(who, call_data, nonce, signature, tip) ==
    [who |-> who, call_data |-> call_data, nonce |-> nonce,
     signature |-> signature, tip |-> tip]

\* r||s made by `signer` over the digest of (who, call_data, signed_nonce),
\* R of even parity, followed by the recovery byte v
Sign(signer, who, call_data, signed_nonce, v) ==
    [rs |-> [wellformed |-> TRUE, signer |-> signer,
             digest |-> eip712_message_hash(who, call_data, signed_nonce),
             parity |-> 0, xlow |-> FALSE],
     v |-> v]

\* 64 bytes that are not a curve signature
Malformed(who, call_data, nonce) ==
    [rs |-> [wellformed |-> FALSE, signer |-> JunkKey,
             digest |-> eip712_message_hash(who, call_data, nonce),
             parity |-> 0, xlow |-> FALSE],
     v |-> 27]

KeyOf(who) == CHOOSE k \in Keys : decoded_account(k) = who
OtherNonce(nonce) == (nonce + 1) % (MaxNonce + 1)

\* requests signed by the caller's own key over their own digest
SignedRequests ==
    {Request(who, call_data, nonce, Sign(KeyOf(who), who, call_data, nonce, 27), tip) :
        who \in Accounts, call_data \in Calls, nonce \in 0..MaxNonce, tip \in Tips}

\* requests whose signature does not bind the caller to the request: another
\* key, a signature lifted from another nonce, a wrong or out-of-range
\* recovery byte, bytes that are no signature
ForgedRequests ==
    UNION {
      {Request(who, "Noop", nonce, Sign(k, who, "Noop", nonce, 27), None) :
           k \in Keys \ {KeyOf(who)}}
      \cup
      {Request(who, "Noop", nonce,
               Sign(KeyOf(who), who, "Noop", OtherNonce(nonce), 27), None),
       Request(who, "Noop", nonce, Sign(KeyOf(who), who, "Noop", nonce, 1), None),
       Request(who, "Noop", nonce, Sign(KeyOf(who), who, "Noop", nonce, 31), None),
       Request(who, "Noop", nonce, Malformed(who, "Noop", nonce), None)} :
      who \in Accounts, nonce \in 0..MaxNonce}

Requests == SignedRequests \cup ForgedRequests

\* ------------------------------------------------------- validate_unsigned

\* a caller check that lets every recovered key through
CheckCaller_Skipped(who, account) == TRUE

\* "Check the caller": the claimed caller is the account of the recovered key
CheckCaller(who, account) == who = account

\* a nonce check without the stale branch
CheckNonce_NoStale(nonce, account_nonce) ==
    IF nonce > account_nonce THEN "Future" ELSE "Ok"

\* frame_system::CheckNonce as inlined by the pallet
CheckNonce(nonce, account_nonce) ==
    IF nonce < account_nonce THEN "Stale"
    ELSE IF nonce # account_nonce
         THEN (IF nonce < account_nonce THEN "Stale" ELSE "Future")
         ELSE "Ok"

\* a requires tag also for the exact nonce
RequiresTag_Inclusive(who, nonce, account_nonce) ==
    IF account_nonce <= nonce /\ nonce > 0 THEN Some(<<who, nonce - 1>>)
    ELSE None

RequiresTag(who, nonce, account_nonce) ==
    IF account_nonce < nonce /\ nonce > 0 THEN Some(<<who, nonce - 1>>)
    ELSE None

ProvidesTag(who, nonce) == <<who, nonce>>

\* a counter that is written back unchanged, and one that skips a nonce
NextNonce_Stuck(account_nonce) == account_nonce
NextNonce_Skip(account_nonce) == account_nonce + 2

NextNonce(account_nonce) == account_nonce + 1

\* a pre-check that looks at the balance before the service fee was taken
usable_balance_for_fees_BeforeFee(bal, who) ==
    reducible_balance(bal[who] + ServiceFee)

\* The balance the pre-check of the estimated fee looks at.
usable_balance_for_fees(bal, who) == reducible_balance(bal[who])

Outcome(result, reached, nonces, bal, ev, provides, requires, priority) ==
    [result |-> result, reached |-> reached, nonces |-> nonces, bal |-> bal,
     events |-> ev, provides |-> provides, requires |-> requires,
     priority |-> priority]

\* The pallet has the one call, so the `else` of the let-else at the top
\* (InvalidTransaction::Call for any other variant) is never taken.
validate_unsigned(nonces, bal, ev, req) ==
    LET who == req.who
        nonce == req.nonce
        message_hash == eip712_message_hash(who, req.call_data, nonce)
        recovered_key == ecdsa_recover_public_key(req.signature, message_hash)
        Reject(err, at, n, b, e) == Outcome(err, at, n, b, e, None, None, 0)
    IN
    IF recovered_key = None
    THEN Reject("BadProof", "signature", nonces, bal, ev)
    ELSE IF ~CheckCaller(who, decoded_account(recovered_key[1]))
    THEN Reject("BadSigner", "identity", nonces, bal, ev)
    ELSE
    LET account_nonce == nonces[who]
        provides == ProvidesTag(who, nonce)
        requires == RequiresTag(who, nonce, account_nonce)
    IN
    IF CheckNonce(nonce, account_nonce) # "Ok"
    THEN Reject(CheckNonce(nonce, account_nonce), "nonce", nonces, bal, ev)
    ELSE
    LET nonces1 == [nonces EXCEPT ![who] = NextNonce(account_nonce)]
        actual_call == decode(req.call_data)
    IN
    IF actual_call = None
    THEN Reject("Call", "decode", nonces1, bal, ev)
    ELSE IF ~CanWithdraw(bal[who], ServiceFee)
    THEN Reject("Payment", "service_fee", nonces1, bal, ev)
    ELSE
    LET bal1 == [bal EXCEPT ![who] = @ - ServiceFee]
        ev1 == Append(ev, Event("ServiceFeePaid", who, ServiceFee, 0, "-"))
        tip == unwrap_tip(req.tip)
        len == encoded_size(actual_call[1])
        info == get_dispatch_info(actual_call[1])
        est_fee == compute_fee(len, info, tip)
    IN
    IF usable_balance_for_fees(bal1, who) < est_fee
    THEN Reject("Payment", "balance", nonces1, bal1, ev1)
    ELSE Outcome("Valid", "done", nonces1, bal1, ev1,
                 Some(provides), requires, get_priority(len, info, tip))

\* ----------------------------------------------- remote_call_from_evm_chain

\* a withdrawal whose failure is not reported
withdraw_fee_Unchecked(free, fee) ==
    IF CanWithdraw(free, fee)
    THEN [ok |-> TRUE, free |-> free - fee, paid |-> fee]
    ELSE [ok |-> TRUE, free |-> free, paid |-> 0]

\* OnChargeTransaction::withdraw_fee (CurrencyAdapter): nothing to pay for a
\* zero fee, else a KeepAlive withdrawal of the whole fee
withdraw_fee(free, fee) ==
    IF fee = 0 THEN [ok |-> TRUE, free |-> free, paid |-> 0]
    ELSE IF CanWithdraw(free, fee)
         THEN [ok |-> TRUE, free |-> free - fee, paid |-> fee]
         ELSE [ok |-> FALSE, free |-> free, paid |-> 0]

\* a correction whose failure goes unnoticed
correct_and_deposit_fee_Unchecked(free, actual_fee, already_withdrawn, adapter_ok) ==
    [ok |-> TRUE, free |-> free + Max(already_withdrawn - actual_fee, 0)]

\* OnChargeTransaction::correct_and_deposit_fee: refunds what was withdrawn
\* above the actual fee; whether it succeeds is up to the configured adapter
correct_and_deposit_fee(free, actual_fee, already_withdrawn, adapter_ok) ==
    IF adapter_ok
    THEN [ok |-> TRUE, free |-> free + Max(already_withdrawn - actual_fee, 0)]
    ELSE [ok |-> FALSE, free |-> free]

\* call.dispatch(origin)
dispatch(call) == IF call = "Noop" THEN "Ok" ELSE "CallError"

ExecOutcome(result, reached, bal, ev, disp) ==
    [result |-> result, reached |-> reached, bal |-> bal, events |-> ev,
     dispatched |-> disp]

remote_call_from_evm_chain(bal, ev, disp, origin, req, adapter_ok) ==
    LET who == req.who
        message_hash == eip712_message_hash(who, req.call_data, req.nonce)
        recovered_key == ecdsa_recover_public_key(req.signature, message_hash)
    IN
    IF origin # "None"
    THEN ExecOutcome("BadOrigin", "origin", bal, ev, disp)
    ELSE IF recovered_key = None
    THEN ExecOutcome("InvalidSignature", "signature", bal, ev, disp)
    ELSE IF ~CheckCaller(who, decoded_account(recovered_key[1]))
    THEN ExecOutcome("AccountMismatch", "identity", bal, ev, disp)
    ELSE
    LET call == decode(req.call_data) IN
    IF call = None
    THEN ExecOutcome("DecodeError", "decode", bal, ev, disp)
    ELSE
    LET len == encoded_size(call[1])
        info == get_dispatch_info(call[1])
        tip == unwrap_tip(req.tip)
        est_fee == compute_fee(len, info, tip)
        already_withdrawn == withdraw_fee(bal[who], est_fee)
    IN
    IF ~already_withdrawn.ok
    THEN ExecOutcome("PaymentError", "withdraw", bal, ev, disp)
    ELSE
    LET bal1 == [bal EXCEPT ![who] = already_withdrawn.free]
        call_result == dispatch(call[1])
        disp1 == Append(disp, <<who, req.nonce, call[1]>>)
        ev1 == Append(ev, Event("CallDone", who, 0, 0, call_result))
        actual_fee == compute_actual_fee(len, info, call_result, tip)
        corrected == correct_and_deposit_fee(bal1[who], actual_fee,
                                             already_withdrawn.paid, adapter_ok)
    IN
    IF ~corrected.ok
    THEN ExecOutcome("PaymentError", "correct", bal1, ev1, disp1)
    ELSE ExecOutcome(call_result, "done",
                     [bal1 EXCEPT ![who] = corrected.free],
                     Append(ev1, Event("TransactionFeePaid", who, actual_fee,
                                       tip, "-")),
                     disp1)

\* ---------------------------------------------------------------- actions
NoRequest == Request("a1", "Noop", 0, Malformed("a1", "Noop", 0), None)

\* genesis: one funded account, one that can pay the service fee just once
GenesisBalance ==
    [a \in Accounts |->
        IF a = "a1" THEN InitBalance ELSE ExistentialDeposit + ServiceFee]

\* no handler has returned a result that is still to be taken
Idle ==
    [op |-> "idle", req |-> NoRequest, origin |-> "None",
     result |-> "-", reached |-> "-", provides |-> None,
     requires |-> None, priority |-> 0,
     preNonce |-> [a \in Accounts |-> 0],
     preBal |-> [a \in Accounts |-> 0],
     preEvents |-> <<>>, preDispatched |-> <<>>,
     prePassed |-> {}, preAdmitted |-> {},
     follows |-> None, adapter_ok |-> TRUE]

NoCalc == [fn |-> "none"]

Init ==
    /\ AccountNonce = [a \in Accounts |-> 0]
    /\ balance = GenesisBalance
    /\ events = <<>>
    /\ dispatched = <<>>
    /\ passed = {}
    /\ admitted = {}
    /\ justAdmitted = None
    /\ last = Idle
    /\ calc = NoCalc

PassedNonceStep(reached) == reached \in {"decode", "service_fee", "balance", "done"}

\* the transaction pool or the block executive runs the admission check
ValidateUnsigned ==
    /\ last.op = "idle"
    /\ Len(events) < MaxEvents
    /\ \E req \in Requests :
         LET who == req.who
             nonce == req.nonce
             out == validate_unsigned(AccountNonce, balance, events, req)
         IN  /\ AccountNonce' = out.nonces
             /\ balance' = out.bal
             /\ events' = out.events
             /\ passed' = IF PassedNonceStep(out.reached)
                          THEN passed \cup {<<who, nonce>>} ELSE passed
             /\ admitted' = IF out.result = "Valid"
                            THEN admitted \cup {<<who, nonce>>} ELSE admitted
             /\ last' = [op |-> "validate", req |-> req, origin |-> "None",
                         result |-> out.result, reached |-> out.reached,
                         provides |-> out.provides, requires |-> out.requires,
                         priority |-> out.priority,
                         preNonce |-> AccountNonce, preBal |-> balance,
                         preEvents |-> events, preDispatched |-> dispatched,
                         prePassed |-> passed, preAdmitted |-> admitted,
                         follows |-> justAdmitted, adapter_ok |-> TRUE]
             /\ justAdmitted' = IF out.result = "Valid" THEN Some(req) ELSE None
             /\ UNCHANGED <<dispatched, calc>>

\* what the fee adapter answered to correct_and_deposit_fee; it is asked only
\* once the action has been dispatched
AdapterAnswer(disp_after, disp_before, adapter_ok) ==
    IF disp_after # disp_before THEN adapter_ok ELSE TRUE

\* a second advance of the caller's counter at execution
AccountNonceAfterExecution_Advance(nonces, req) ==
    [nonces EXCEPT ![req.who] = Min(@ + 1, MaxNonce + 1)]

\* the body of the dispatchable neither reads nor writes AccountNonce
AccountNonceAfterExecution(nonces, req) == nonces

\* the extrinsic is applied
RemoteCallFromEvmChain ==
    /\ last.op = "idle"
    /\ Len(events) < MaxEvents
    /\ \E req \in Requests :
       \E env \in {<<"None", TRUE>>, <<"None", FALSE>>, <<"Signed", TRUE>>} :
         LET origin == env[1]
             adapter_ok == env[2]
             out == remote_call_from_evm_chain(balance, events, dispatched,
                                               origin, req, adapter_ok)
         IN  /\ balance' = out.bal
             /\ events' = out.events
             /\ dispatched' = out.dispatched
             /\ last' = [op |-> "execute", req |-> req, origin |-> origin,
                         result |-> out.result, reached |-> out.reached,
                         provides |-> None, requires |-> None, priority |-> 0,
                         preNonce |-> AccountNonce, preBal |-> balance,
                         preEvents |-> events, preDispatched |-> dispatched,
                         prePassed |-> passed, preAdmitted |-> admitted,
                         follows |-> justAdmitted,
                         adapter_ok |-> AdapterAnswer(out.dispatched, dispatched,
                                                      adapter_ok)]
             /\ justAdmitted' = None
             /\ AccountNonce' = AccountNonceAfterExecution(AccountNonce, req)
             /\ UNCHANGED <<passed, admitted, calc>>

\* the caller takes the returned TransactionValidity or DispatchResult; the
\* handlers run one at a time, so the next one starts after that
TakeResult ==
    /\ last.op # "idle"
    /\ last' = Idle
    /\ UNCHANGED <<AccountNonce, balance, events, dispatched, passed, admitted,
                   justAdmitted, calc>>

Next == ValidateUnsigned \/ RemoteCallFromEvmChain \/ TakeResult

Spec == Init /\ [][Next]_vars

\* ------------------------------------------- the pure functions on their own
\* encoded lengths: empty, within the block, beyond the block length
Lens == 0..(MaxBlockLength + 1)
\* weights: zero, within the block, beyond the block weight
Weights ==
    {[ref_time |-> r, proof_size |-> q] :
        r \in {0, 1, 4, MaxBlockRefTime, MaxBlockRefTime + 1},
        q \in {0, 2, MaxBlockProofSize + 1}}
\* every value of the balance type
TipValues == 0..BalanceMax
\* the three regimes of the per-block bound
PairLens == {0, 2, MaxBlockLength + 1}
PairWeights ==
    {[ref_time |-> 0, proof_size |-> 0],
     [ref_time |-> 4, proof_size |-> 2],
     [ref_time |-> MaxBlockRefTime + 1, proof_size |-> MaxBlockProofSize + 1]}
\* the 64 bytes r||s of a signature
RS ==
    [wellformed : BOOLEAN, signer : Keys,
     digest : {eip712_message_hash("a1", "Noop", n) : n \in 0..1},
     parity : {0, 1}, xlow : BOOLEAN]
\* the last signature byte
RecoveryBytes == 0..32 \cup {255}

InitCalc == Init

\* the priority of one candidate (lines 252-286)
PriorityOf ==
    /\ calc = NoCalc
    /\ \E len \in Lens, info \in Weights, tip \in TipValues :
         /\ calc' = [fn |-> "get_priority", len |-> len, info |-> info,
                     tip |-> tip,
                     bounded_length |-> bounded_length(len),
                     bounded_weight |-> bounded_weight(info),
                     priority |-> get_priority(len, info, tip)]
         /\ UNCHANGED <<AccountNonce, balance, events, dispatched, passed,
                        admitted, justAdmitted, last>>

\* the priorities of two candidates of the same length and weight
PriorityOfTwo ==
    /\ calc = NoCalc
    /\ \E len \in PairLens, info \in PairWeights :
       \E t1 \in TipValues, t2 \in TipValues :
         /\ t1 < t2
         /\ calc' = [fn |-> "get_priority_twice", len |-> len, info |-> info,
                     t1 |-> t1, t2 |-> t2,
                     p1 |-> get_priority(len, info, t1),
                     p2 |-> get_priority(len, info, t2)]
         /\ UNCHANGED <<AccountNonce, balance, events, dispatched, passed,
                        admitted, justAdmitted, last>>

\* the key recovered from 65 signature bytes and a digest (lines 388-403)
RecoverPublicKey ==
    /\ calc = NoCalc
    /\ \E rs \in RS, v \in RecoveryBytes :
       \E message \in {eip712_message_hash("a1", "Noop", n) : n \in 0..1} :
         /\ calc' = [fn |-> "ecdsa_recover_public_key", rs |-> rs, v |-> v,
                     message |-> message,
                     key |-> ecdsa_recover_public_key([rs |-> rs, v |-> v],
                                                     message)]
         /\ UNCHANGED <<AccountNonce, balance, events, dispatched, passed,
                        admitted, justAdmitted, last>>

\* the value is returned to the caller
ReturnValue ==
    /\ calc # NoCalc
    /\ calc' = NoCalc
    /\ UNCHANGED <<AccountNonce, balance, events, dispatched, passed,
                   admitted, justAdmitted, last>>

NextCalc == PriorityOf \/ PriorityOfTwo \/ RecoverPublicKey \/ ReturnValue

SpecCalc == InitCalc /\ [][NextCalc]_vars

TypeOK ==
    /\ AccountNonce \in [Accounts -> 0..(MaxNonce + 1)]
    /\ balance \in [Accounts -> 0..(InitBalance)]
    /\ Len(events) <= MaxEvents + 1

\* ----------------------------------------------------------------- claims
Who == last.req.who
Nonce == last.req.nonce
Validated == last.op = "validate"
Executed == last.op = "execute"
\* the request carries the caller's own signature over its own digest
Genuine ==
    last.req.signature
        = Sign(KeyOf(Who), Who, last.req.call_data, Nonce, 27)
\* the request carries one of the signatures that do not bind the caller
Forged == ~Genuine
\* the signature bytes yield no key at all
Unrecoverable == ~last.req.signature.rs.wellformed \/ last.req.signature.v = 31
EstFee ==
    compute_fee(encoded_size(last.req.call_data),
                get_dispatch_info(last.req.call_data), unwrap_tip(last.req.tip))
Decodable == last.req.call_data # "Garbage"
ServiceFeePaidEvent == Event("ServiceFeePaid", Who, ServiceFee, 0, "-")
NothingChanged ==
    /\ AccountNonce = last.preNonce
    /\ balance = last.preBal
    /\ events = last.preEvents
    /\ dispatched = last.preDispatched

\* C1: once a request (a, n) has passed the nonce step, a later admission
\* check of (a, n) is never accepted, and a replay that carries the caller's
\* signature is rejected as Stale.
C1_ReplayRejected ==
    (Validated /\ <<Who, Nonce>> \in last.prePassed)
        => /\ last.result # "Valid"
           /\ Genuine => last.result = "Stale"

C1_Witness ==
    /\ Validated /\ Genuine
    /\ <<Who, Nonce>> \in last.prePassed
    /\ last.result = "Stale"

\* C2: an admission check of a genuine request whose nonce is above the
\* counter is accepted with requires tag (who, nonce - 1) and leaves the
\* counter unchanged.
C2_FutureAdmitted ==
    (Validated /\ Genuine /\ Nonce > last.preNonce[Who])
        => /\ last.result = "Valid"
           /\ last.requires = Some(<<Who, Nonce - 1>>)
           /\ AccountNonce = last.preNonce

\* C3: an admission check of a genuine request whose nonce equals the counter
\* advances that counter by one; when decode, service fee and balance check
\* pass it is accepted with provides (who, nonce) and no requires tag.
C3_ExactNonceConsumed ==
    (Validated /\ Genuine /\ Nonce = last.preNonce[Who])
        => /\ AccountNonce = [last.preNonce EXCEPT ![Who] = @ + 1]
           /\ ( /\ Decodable
                /\ CanWithdraw(last.preBal[Who], ServiceFee)
                /\ reducible_balance(last.preBal[Who] - ServiceFee) >= EstFee )
              => /\ last.result = "Valid"
                 /\ last.provides = Some(<<Who, Nonce>>)
                 /\ last.requires = None

C3_Witness ==
    /\ Validated /\ Genuine
    /\ Nonce = last.preNonce[Who] /\ Nonce > 0
    /\ last.result = "Valid"

\* C4 (as stated): the action of a request with a given (caller, nonce) is
\* dispatched at most once.
C4_DispatchedAtMostOnce ==
    \A i, j \in DOMAIN dispatched :
        (dispatched[i][1] = dispatched[j][1] /\ dispatched[i][2] = dispatched[j][2])
            => i = j

\* C4 (amended): a (caller, nonce) is accepted by the admission check at most
\* once, and one execution dispatches the action at most once.
C4_AdmittedAtMostOnce ==
    /\ (Validated /\ last.result = "Valid") => <<Who, Nonce>> \notin last.preAdmitted
    /\ Executed => Len(dispatched) <= Len(last.preDispatched) + 1

C4_Witness ==
    /\ Executed /\ <<Who, Nonce>> \in admitted
    /\ dispatched = Append(last.preDispatched, <<Who, Nonce, last.req.call_data>>)

\* C5: when recovery fails or the recovered identity is not the claimed
\* caller, the check rejects BadProof / BadSigner, the execution fails
\* InvalidSignature / AccountMismatch, and nothing is changed.
C5_NoMutationBeforeIdentity ==
    ((Validated \/ Executed) /\ Forged /\ last.origin = "None")
        => /\ NothingChanged
           /\ Validated =>
                last.result = IF Unrecoverable THEN "BadProof" ELSE "BadSigner"
           /\ Executed =>
                last.result = IF Unrecoverable THEN "InvalidSignature"
                              ELSE "AccountMismatch"

C5_Witness ==
    /\ Executed /\ Forged /\ last.origin = "None"
    /\ ~Unrecoverable
    /\ last.req.signature.rs.digest
         = eip712_message_hash(Who, last.req.call_data, OtherNonce(Nonce))
    /\ <<Who, OtherNonce(Nonce)>> \in admitted

\* C6: an admission check of a genuine request whose nonce is below the
\* counter is rejected as Stale and changes nothing.
C6_StaleChangesNothing ==
    (Validated /\ Genuine /\ Nonce < last.preNonce[Who])
        => last.result = "Stale" /\ NothingChanged

C6_Witness ==
    /\ Validated /\ Genuine
    /\ Nonce < last.preNonce[Who]
    /\ Len(events) > 0

\* an admitted request that no execution has dispatched yet
Pending ==
    /\ <<Who, Nonce>> \in last.preAdmitted
    /\ \A i \in DOMAIN last.preDispatched :
          <<last.preDispatched[i][1], last.preDispatched[i][2]>> # <<Who, Nonce>>

\* C7 (as stated): the admission check run again on a pending request
\* withdraws the service fee again and advances the counter again.
C7_RevalidationChargesAgain ==
    (Validated /\ Genuine /\ Pending)
        => /\ balance[Who] = last.preBal[Who] - ServiceFee
           /\ AccountNonce[Who] = last.preNonce[Who] + 1

\* C7 (amended): the admission check run again on a pending request is
\* rejected as Stale, withdraws nothing and leaves the counter alone.
C7_RevalidationIsStale ==
    (Validated /\ Genuine /\ Pending)
        => last.result = "Stale" /\ NothingChanged

C7_Witness ==
    /\ Validated /\ Genuine /\ Pending
    /\ last.result = "Stale"

\* C8 (as stated): when the balance pre-check fails, the service fee and its
\* event are the only change; the nonce counter is as before the check.
C8_OnlyServiceFee ==
    (Validated /\ last.reached = "balance")
        => /\ last.result = "Payment"
           /\ balance = [last.preBal EXCEPT ![Who] = @ - ServiceFee]
           /\ events = Append(last.preEvents, ServiceFeePaidEvent)
           /\ dispatched = last.preDispatched
           /\ AccountNonce = last.preNonce

\* C8 (amended): when the balance pre-check fails, the changes are the
\* service fee with its event and the caller's counter advanced by one.
C8_ServiceFeeAndNonce ==
    (Validated /\ last.reached = "balance")
        => /\ last.result = "Payment"
           /\ balance = [last.preBal EXCEPT ![Who] = @ - ServiceFee]
           /\ events = Append(last.preEvents, ServiceFeePaidEvent)
           /\ dispatched = last.preDispatched
           /\ AccountNonce = [last.preNonce EXCEPT ![Who] = @ + 1]

C8_Witness ==
    /\ Validated /\ last.reached = "balance"
    /\ reducible_balance(balance[Who]) < EstFee

\* C9: an accepted admission check has withdrawn ServiceFee once and emitted
\* one ServiceFeePaid, and its balance check saw the balance after that
\* withdrawal; a failed service-fee withdrawal rejects with Payment and emits
\* nothing.
C9_ServiceFeeFirst ==
    /\ (Validated /\ last.result = "Valid")
          => /\ balance = [last.preBal EXCEPT ![Who] = @ - ServiceFee]
             /\ events = Append(last.preEvents, ServiceFeePaidEvent)
             /\ reducible_balance(last.preBal[Who] - ServiceFee) >= EstFee
    /\ ( /\ Validated /\ Genuine /\ Nonce = last.preNonce[Who] /\ Decodable
         /\ ~CanWithdraw(last.preBal[Who], ServiceFee) )
          => /\ last.result = "Payment"
             /\ events = last.preEvents
             /\ balance = last.preBal

C9_Witness ==
    /\ Validated /\ last.result = "Valid"
    /\ last.req.tip = Some(1)
    /\ reducible_balance(balance[Who]) = EstFee

\* C10: an execution dispatches only after the estimated fee was withdrawn;
\* when that withdrawal fails it returns PaymentError, dispatches nothing and
\* emits neither CallDone nor TransactionFeePaid.
C10_NoDispatchWithoutFee ==
    /\ (Executed /\ dispatched # last.preDispatched)
          => CanWithdraw(last.preBal[Who], EstFee)
    /\ ( /\ Executed /\ Genuine /\ last.origin = "None" /\ Decodable
         /\ ~CanWithdraw(last.preBal[Who], EstFee) )
          => /\ last.result = "PaymentError"
             /\ dispatched = last.preDispatched
             /\ events = last.preEvents
             /\ balance = last.preBal

C10_Witness ==
    /\ Executed /\ Genuine /\ last.origin = "None" /\ Decodable
    /\ ~CanWithdraw(last.preBal[Who], EstFee)
    /\ last.preBal[Who] >= EstFee

\* ------------------------------------------------- claims, second part
\* the execution got as far as call.dispatch
Dispatching ==
    /\ Executed /\ Genuine /\ last.origin = "None" /\ Decodable
    /\ CanWithdraw(last.preBal[Who], EstFee)
CallDoneEvent(call_result) == Event("CallDone", Who, 0, 0, call_result)
FeePaidEvent(actual_fee) ==
    Event("TransactionFeePaid", Who, actual_fee, unwrap_tip(last.req.tip), "-")

\* C11: when the dispatched action fails, the execution records the error in
\* CallDone, takes the actual fee from the error's post-dispatch info (two
\* units below the estimate here), refunds the difference to what was
\* withdrawn, emits TransactionFeePaid and returns the action's error.
C11_FailingActionCorrected ==
    (Dispatching /\ last.req.call_data = "Fail" /\ last.adapter_ok)
        => /\ last.result = "CallError"
           /\ dispatched = Append(last.preDispatched, <<Who, Nonce, "Fail">>)
           /\ events = last.preEvents \o
                 <<CallDoneEvent("CallError"), FeePaidEvent(EstFee - 2)>>
           /\ balance = [last.preBal EXCEPT ![Who] = @ - (EstFee - 2)]

C11_Witness ==
    /\ Dispatching /\ last.req.call_data = "Fail" /\ last.adapter_ok
    /\ last.req.tip = Some(1)
    /\ last.result = "CallError"

\* the admission half of the end-to-end scenario, for a caller holding at
\* least `funds` at counter 0
AdmissionOfFirstNonce(funds) ==
    ( /\ Validated /\ Genuine /\ Decodable
      /\ Nonce = 0 /\ last.preNonce[Who] = 0
      /\ last.preBal[Who] >= funds )
        => /\ last.result = "Valid"
           /\ last.requires = None
           /\ balance = [last.preBal EXCEPT ![Who] = @ - ServiceFee]
           /\ events = Append(last.preEvents, ServiceFeePaidEvent)
           /\ AccountNonce = [last.preNonce EXCEPT ![Who] = 1]

\* the execution half: the request accepted by the handler run just before
\* is executed, and the fee adapter accepts the correction
ExecutionOfAdmitted ==
    ( /\ Executed /\ last.origin = "None" /\ last.adapter_ok
      /\ Nonce = 0 /\ last.follows = Some(last.req) )
        => LET n == Len(last.preEvents) IN
           /\ dispatched = Append(last.preDispatched,
                                  <<Who, Nonce, last.req.call_data>>)
           /\ Len(events) = n + 2
           /\ SubSeq(events, 1, n) = last.preEvents
           /\ events[n + 1].kind = "CallDone" /\ events[n + 1].who = Who
           /\ events[n + 2].kind = "TransactionFeePaid"
           /\ events[n + 2].who = Who
           /\ events[n + 2].tip = IF last.req.tip = None THEN 0
                                  ELSE last.req.tip[1]

\* C12 (as stated): from counter 0 and a balance of at least service fee plus
\* estimated fee, the check of nonce 0 is accepted without requires tag,
\* withdraws the service fee once and sets the counter to 1; the following
\* execution dispatches and emits one CallDone, then one TransactionFeePaid
\* carrying the request's tip (0 when absent).
C12_EndToEnd ==
    AdmissionOfFirstNonce(ServiceFee + EstFee) /\ ExecutionOfAdmitted

\* C12 (amended): the same, from a balance that also covers the existential
\* deposit, which both KeepAlive withdrawals leave in the account.
C12_EndToEndKeepAlive ==
    /\ AdmissionOfFirstNonce(ServiceFee + EstFee + ExistentialDeposit)
    /\ ExecutionOfAdmitted

C12_Witness ==
    /\ Executed /\ last.origin = "None" /\ last.adapter_ok
    /\ Nonce = 0 /\ last.follows = Some(last.req)
    /\ last.req.tip = Some(1)
    /\ last.result = "Ok"
    /\ last.preBal[Who] = InitBalance - ServiceFee

\* the outcome of an execution, told from the origin, the signature, the
\* action, the caller's balance and the fee adapter alone
OutcomeWithoutCounter ==
    IF last.origin # "None" THEN "BadOrigin"
    ELSE IF Unrecoverable THEN "InvalidSignature"
    ELSE IF Forged THEN "AccountMismatch"
    ELSE IF ~Decodable THEN "DecodeError"
    ELSE IF ~CanWithdraw(last.preBal[Who], EstFee) THEN "PaymentError"
    ELSE IF ~last.adapter_ok THEN "PaymentError"
    ELSE IF last.req.call_data = "Fail" THEN "CallError"
    ELSE "Ok"

\* C13: an execution, whatever its outcome, leaves every account's nonce
\* counter as it was, and its outcome is fixed by inputs other than the
\* counter (so it is the same whether the request's nonce is below, at or
\* above the counter).
C13_ExecutionLeavesNonce ==
    Executed => /\ AccountNonce = last.preNonce
                /\ last.result = OutcomeWithoutCounter

C13_Witness ==
    /\ Executed /\ last.result = "Ok"
    /\ Nonce > last.preNonce[Who]
    /\ AccountNonce = last.preNonce

PriorityMeasured == calc.fn = "get_priority_twice"

\* C14 (as stated): with the same weight and length and tips t1 < t2 anywhere
\* in the balance type, the priority for t1 is strictly less than for t2.
C14_StrictlyMonotone ==
    PriorityMeasured => calc.p1 < calc.p2

\* C14 (amended): the priority for t1 is never greater than the priority for
\* t2, and it is strictly less unless the priority for t2 has reached the
\* maximum of the priority type.
C14_MonotoneUntilSaturation ==
    PriorityMeasured => /\ calc.p1 <= calc.p2
                        /\ calc.p2 < PriorityMax => calc.p1 < calc.p2

C14_Witness ==
    /\ PriorityMeasured
    /\ calc.t1 = 0 /\ calc.t2 = BalanceMax
    /\ calc.p1 < calc.p2 /\ calc.p2 = PriorityMax

\* C15: every counter moves by 0 or +1 in each step and never down; the
\* nonces that passed the nonce step are exactly 0 .. counter-1 for every
\* account, and a nonce passes only when it is the counter itself and has not
\* passed before, so they pass once each and in increasing order.
C15_GapFreeNonces ==
    /\ passed = {<<a, n>> \in Accounts \X (0..(MaxNonce + 1)) :
                    n < AccountNonce[a]}
    /\ last.op # "idle" =>
          \A a \in Accounts :
              AccountNonce[a] - last.preNonce[a] \in {0, 1}
    /\ (Validated /\ PassedNonceStep(last.reached)) =>
          /\ Nonce = last.preNonce[Who]
          /\ <<Who, Nonce>> \notin last.prePassed
          /\ AccountNonce[Who] = Nonce + 1

C15_Witness ==
    /\ Validated /\ PassedNonceStep(last.reached)
    /\ Nonce = 1
    /\ passed = {<<Who, 0>>, <<Who, 1>>}
    /\ AccountNonce[Who] = 2

\* how many requests of this length and weight fit into an empty block
PerBlockBound(len, weight) ==
    LET l == IF len < 1 THEN 1
             ELSE IF len > MaxBlockLength THEN MaxBlockLength ELSE len
        r == Min(Max(weight.ref_time, 1), MaxBlockRefTime)
        q == Min(Max(weight.proof_size, 1), MaxBlockProofSize)
    IN  Min(MaxBlockLength \div l,
            Min(MaxBlockRefTime \div r, MaxBlockProofSize \div q))

\* C16: the priority is (tip + 1) times the per-block bound, the addition and
\* the multiplication saturating at the balance type's maximum and the
\* conversion at the priority type's maximum; both divisors are at least 1,
\* the result stays within the priority type, and it is at least the
\* per-block bound, the priority of a zero tip.
C16_PriorityFormula ==
    calc.fn = "get_priority" =>
        LET bound == PerBlockBound(calc.len, calc.info)
            tip1 == IF calc.tip + 1 > BalanceMax THEN BalanceMax
                    ELSE calc.tip + 1
            product == IF tip1 * bound > BalanceMax THEN BalanceMax
                       ELSE tip1 * bound
        IN  /\ calc.priority = IF product > PriorityMax THEN PriorityMax
                               ELSE product
            /\ calc.bounded_length >= 1
            /\ calc.bounded_weight.ref_time >= 1
            /\ calc.bounded_weight.proof_size >= 1
            /\ calc.priority \in 0..PriorityMax
            /\ calc.priority >= bound
            /\ calc.tip = 0 => calc.priority = bound

C16_Witness ==
    /\ calc.fn = "get_priority"
    /\ calc.len = 0
    /\ calc.info.ref_time = MaxBlockRefTime + 1
    /\ calc.info.proof_size = 0
    /\ calc.tip = BalanceMax
    /\ calc.priority = PriorityMax

\* the events deposited by the handler whose result is in `last`
NewEvents == SubSeq(events, Len(last.preEvents) + 1, Len(events))
FeePaidEmitted ==
    \E i \in DOMAIN NewEvents : NewEvents[i].kind = "TransactionFeePaid"

\* C17: when the action was dispatched and the fee correction then fails, the
\* execution returns PaymentError having emitted CallDone and nothing after
\* it; an execution emits TransactionFeePaid exactly when the fee withdrawal,
\* the dispatch and the fee correction all went through, and then CallDone is
\* the event right before it.
C17_CorrectionFailure ==
    /\ (Dispatching /\ ~last.adapter_ok) =>
          /\ last.result = "PaymentError"
          /\ dispatched = Append(last.preDispatched,
                                 <<Who, Nonce, last.req.call_data>>)
          /\ Len(NewEvents) = 1
          /\ NewEvents[1].kind = "CallDone" /\ NewEvents[1].who = Who
          /\ ~FeePaidEmitted
    /\ Executed =>
          /\ SubSeq(events, 1, Len(last.preEvents)) = last.preEvents
          /\ FeePaidEmitted <=> (Dispatching /\ last.adapter_ok)
          /\ \A i \in DOMAIN NewEvents :
                NewEvents[i].kind = "TransactionFeePaid" =>
                    /\ i > 1
                    /\ NewEvents[i - 1].kind = "CallDone"
                    /\ NewEvents[i - 1].who = NewEvents[i].who

C17_Witness ==
    /\ Dispatching /\ ~last.adapter_ok
    /\ last.result = "PaymentError"
    /\ Len(events) = Len(last.preEvents) + 1
    /\ events[Len(events)].kind = "CallDone"

Recovered == calc.fn = "ecdsa_recover_public_key"
\* the key recovered from the same r||s and digest with another last byte
RecoveredWith(v) ==
    ecdsa_recover_public_key([rs |-> calc.rs, v |-> v], calc.message)

\* C18: a last byte above 26 counts as that byte minus 27, so 27 gives what
\* 0 gives and 28 what 1 gives, and the result is none whenever the byte so
\* normalised is neither 0 nor 1.
C18_RecoveryIdNormalised ==
    Recovered =>
        LET id == IF calc.v > 26 THEN calc.v - 27 ELSE calc.v
        IN  /\ calc.v = 27 => calc.key = RecoveredWith(0)
            /\ calc.v = 28 => calc.key = RecoveredWith(1)
            /\ id \notin {0, 1} => calc.key = None

\* the two conventions agree on ids 0 and 1, whatever r||s and digest
C18_ConventionsAgree ==
    Recovered =>
        /\ calc.v = 27 => calc.key = RecoveredWith(0)
        /\ calc.v = 28 => calc.key = RecoveredWith(1)
        /\ (calc.v > 26 /\ calc.v - 27 > 3) => calc.key = None

\* C19: an admission check of a request with the caller's own signature and
\* the nonce equal to the counter, whose action bytes do not decode, is
\* rejected as an invalid call with the counter advanced by one and no
\* service fee withdrawn: balances and the event log are as before.
C19_UndecodableBurnsNonce ==
    (Validated /\ Genuine /\ Nonce = last.preNonce[Who] /\ ~Decodable)
        => /\ last.result = "Call"
           /\ AccountNonce = [last.preNonce EXCEPT ![Who] = @ + 1]
           /\ balance = last.preBal
           /\ events = last.preEvents
           /\ dispatched = last.preDispatched

C19_Witness ==
    /\ Validated /\ Genuine /\ ~Decodable
    /\ last.result = "Call"
    /\ Nonce = 1 /\ last.preNonce[Who] = 1 /\ AccountNonce[Who] = 2
    /\ CanWithdraw(last.preBal[Who], ServiceFee)

ServiceFeesPaid(a) ==
    {i \in DOMAIN events :
        events[i].kind = "ServiceFeePaid" /\ events[i].who = a}

\* C20: in every state and for every account, the number of ServiceFeePaid
\* events of the account, each of them for the amount ServiceFee, is at most
\* the account's nonce counter.
C20_FeesBoundedByNonces ==
    \A a \in Accounts :
        /\ Cardinality(ServiceFeesPaid(a)) <= AccountNonce[a]
        /\ \A i \in ServiceFeesPaid(a) : events[i].amount = ServiceFee

C20_Witness ==
    \E a \in Accounts :
        /\ Cardinality(ServiceFeesPaid(a)) = 2
        /\ AccountNonce[a] = 2
        /\ balance[a] = GenesisBalance[a] - 2 * ServiceFee

====
